---- MODULE Spec2Model ----
(***************************************************************************)
(* cube-tui: the session control loop of src/ui/mod.rs (run, handle_input, *)
(* render_times, render_timer, render_chart) together with the app module  *)
(* it drives (App, Timer, Times, Route), whose source is not part of the   *)
(* tree and is modelled from the specification.                            *)
(*                                                                         *)
(* Time is counted in milliseconds.  An Option<T> is a sequence of length  *)
(* at most one: None is <<>>, Some(v) is <<v>>.                            *)
(***************************************************************************)
EXTENDS Integers, Sequences, FiniteSets, TLC

VARIABLES
    pc,         \* position of run: "load", "poll", "tick", "on_tick", "done", "failed"
    key,        \* the event handle_input read in this loop iteration ("none": no event)
    tick_rate,  \* app.tick_rate, in ms
    elapsed,    \* last_tick.elapsed(), in ms
    timer,      \* app.timer: [on, lasttime]
    times,      \* app.times.times: the History, oldest first
    stats,      \* app.times: the aggregates
    scramble,   \* app.scramble: the number of the current scramble (mod 2)
    route,      \* app.route: [screen, active_block, selected_block]
    cursor,     \* app.times_state.selected(): Option<row of the Times table>
    disk,       \* the persisted history file: a sequence of stored elapsed values
    io          \* the storage calls of this dispatch and their results, in call order

vars == <<pc, key, tick_rate, elapsed, timer, times, stats, scramble, route, cursor, disk, io>>

----------------------------------------------------------------------------
(* Bounds of the model *)

\* the longest History of the full and of the Times-table specification
MaxHist == 2
\* the largest elapsed time a clock sample yields (full specification)
MaxTime == 2
\* the longest persisted file found at startup
MaxStored == 2
\* the longest History of the solves-only specification
MaxSolves == 12
\* the largest elapsed time of the solves-only specification
MaxSolveTime == 1

----------------------------------------------------------------------------
(* Program constants *)

\* Duration::from_millis(1000): the rate at startup and after a completed solve
SlowRate == 1000
\* Duration::from_millis(100): the rate set when space_press returns None
FastRate == 100

None == <<>>
Some(v) == <<v>>
IsSome(o) == o # <<>>
Unwrap(o) == o[1]

Min2(a, b) == IF a <= b THEN a ELSE b
Max2(a, b) == IF a >= b THEN a ELSE b

----------------------------------------------------------------------------
(* Statistics Engine: Time::gen_stats, Times::insert, Times::delete, load *)

RECURSIVE SumSeq(_)
SumSeq(s) == IF s = <<>> THEN 0 ELSE Head(s) + SumSeq(Tail(s))

RECURSIVE MinSeq(_)
MinSeq(s) == IF Len(s) = 1 THEN s[1] ELSE Min2(Head(s), MinSeq(Tail(s)))

RECURSIVE MaxSeq(_)
MaxSeq(s) == IF Len(s) = 1 THEN s[1] ELSE Max2(Head(s), MaxSeq(Tail(s)))

\* the last n elements of s (n <= Len(s))
LastN(s, n) == SubSeq(s, Len(s) - n + 1, Len(s))

\* ao-N over a window w of exactly N elapsed times: drop the single best and
\* the single worst, average the remaining N-2 (in whole ticks)
TrimmedMean(w) == (SumSeq(w) - MinSeq(w) - MaxSeq(w)) \div (Len(w) - 2)

\* ao-N of the sequence e of elapsed times, ending at its last element
AoN(e, n) == IF Len(e) >= n THEN Some(TrimmedMean(LastN(e, n))) ELSE None

\* the elapsed times of a History
Elapsed(h) == [i \in 1..Len(h) |-> h[i].time]

\* Time::gen_stats(&self, prev): the record for elapsed time t, annotated with
\* its ao5 and ao12 over the history prev that precedes it
gen_stats(t, prev) ==
    LET e == Append(Elapsed(prev), t)
    IN  [time |-> t, ao5 |-> AoN(e, 5), ao12 |-> AoN(e, 12)]

\* Times::insert: the record goes to the end of the History
insert(h, rec) == Append(h, rec)

\* the Option values of field f that are Some, in History order
SomeOf(h, f) == LET idx == {i \in 1..Len(h) : IsSome(h[i][f])}
                IN  {Unwrap(h[i][f]) : i \in idx}

SetMin(S) == CHOOSE x \in S : \A y \in S : x <= y

OptMin(S) == IF S = {} THEN None ELSE Some(SetMin(S))

\* the aggregates of a History, recomputed from it.  render_bests shows the six
\* Option<f64> fields; worst is a plain f64 (render_chart formats it and uses it
\* as an axis bound without unwrapping), a value that is always there: Some(v)
Aggregates(h) ==
    LET e == Elapsed(h)
    IN  [pbsingle   |-> IF h = <<>> THEN None ELSE Some(MinSeq(e)),
         pbao5      |-> OptMin(SomeOf(h, "ao5")),
         pbao12     |-> OptMin(SomeOf(h, "ao12")),
         ao100      |-> AoN(e, 100),
         ao1k       |-> AoN(e, 1000),
         rollingavg |-> IF h = <<>> THEN None ELSE Some(SumSeq(e) \div Len(e)),
         worst      |-> Some(IF h = <<>> THEN 0 ELSE MaxSeq(e))]

\* a History rebuilt from elapsed times alone: every record annotated from
\* the records before it
RECURSIVE Rebuild(_)
Rebuild(e) ==
    IF e = <<>> THEN <<>>
    ELSE LET prev == Rebuild(SubSeq(e, 1, Len(e) - 1))
         IN  insert(prev, gen_stats(e[Len(e)], prev))

\* s without its element at 1-based position i
RemoveAt(s, i) == SubSeq(s, 1, i - 1) \o SubSeq(s, i + 1, Len(s))

----------------------------------------------------------------------------
(* Timer *)

\* the state render_timer distinguishes by colour: on => Running (LightGreen),
\* off with a last time => Stopped (LightBlue), off without => Idle (White)
TimerState(t) ==
    IF t.on THEN "Running"
    ELSE IF IsSome(t.lasttime) THEN "Stopped" ELSE "Idle"

\* Timer::space_press with the clock reading now - start = sample:
\*   Idle    -> Running, returns None
\*   Running -> Stopped, returns the finished time
\*   Stopped -> Idle,    returns None
\* (Armed is listed among the timer states but no transition enters it)
space_press(t, sample) ==
    CASE TimerState(t) = "Idle"    -> [timer |-> [on |-> TRUE,  lasttime |-> None], ret |-> None]
      [] TimerState(t) = "Running" -> [timer |-> [on |-> FALSE, lasttime |-> Some(sample)],
                                       ret   |-> Some(sample)]
      [] TimerState(t) = "Stopped" -> [timer |-> [on |-> FALSE, lasttime |-> None], ret |-> None]

----------------------------------------------------------------------------
(* Scramble Generator *)

\* App::new_scramble: the next scramble of the random source
new_scramble(s) == 1 - s

----------------------------------------------------------------------------
(* Navigation Router *)

Blocks == {"Help", "Tools", "Timer", "Times", "Scramble", "Stats", "Main"}
Dirs == {"Left", "Down", "Up", "Right"}

\* the neighbour of block b in direction d in render_default's layout, b itself
\* when there is none: the left column holds Help|Tools, Timer, Times and the
\* right column Scramble, Stats, Main
Neighbour(b, d) ==
    CASE b = "Help"     /\ d = "Right" -> "Tools"
      [] b = "Help"     /\ d = "Down"  -> "Timer"
      [] b = "Tools"    /\ d = "Left"  -> "Help"
      [] b = "Tools"    /\ d = "Down"  -> "Timer"
      [] b = "Tools"    /\ d = "Right" -> "Scramble"
      [] b = "Timer"    /\ d = "Up"    -> "Help"
      [] b = "Timer"    /\ d = "Down"  -> "Times"
      [] b = "Timer"    /\ d = "Right" -> "Stats"
      [] b = "Times"    /\ d = "Up"    -> "Timer"
      [] b = "Times"    /\ d = "Right" -> "Main"
      [] b = "Scramble" /\ d = "Left"  -> "Tools"
      [] b = "Scramble" /\ d = "Down"  -> "Stats"
      [] b = "Stats"    /\ d = "Up"    -> "Scramble"
      [] b = "Stats"    /\ d = "Left"  -> "Timer"
      [] b = "Stats"    /\ d = "Down"  -> "Main"
      [] b = "Main"     /\ d = "Up"    -> "Stats"
      [] b = "Main"     /\ d = "Left"  -> "Times"
      [] OTHER -> b

\* Route::enter: with no block selected the active block becomes the selected
\* one; otherwise the enter goes to the selected panel's own state
enter(r) == IF r.selected_block = None
            THEN [r EXCEPT !.selected_block = Some(r.active_block)]
            ELSE r

\* App::esc: leaves the Help screen and clears the selection
esc(r) == [r EXCEPT !.screen = "Default", !.selected_block = None]

\* App::help: toggles the Help screen
help(r) == [r EXCEPT !.screen = IF r.screen = "Help" THEN "Default" ELSE "Help"]

\* the cursor kept inside a table of n rows
Clamp(c, n) == IF n = 0 THEN None
               ELSE IF IsSome(c) /\ Unwrap(c) > n - 1 THEN Some(n - 1) ELSE c

\* App::mv on the route: with nothing selected the focus moves to the neighbour
mv_route(r, d) == IF r.selected_block = None
                  THEN [r EXCEPT !.active_block = Neighbour(r.active_block, d)]
                  ELSE r

\* App::mv on the Times cursor: with Times selected, Down and Up move the cursor
\* one row, staying inside the n rows
mv_cursor(r, c, d, n) ==
    IF r.selected_block # Some("Times") \/ n = 0 \/ d \notin {"Down", "Up"} THEN c
    ELSE IF c = None THEN Some(0)
    ELSE IF d = "Down" THEN Some(Min2(Unwrap(c) + 1, n - 1))
    ELSE Some(Max2(Unwrap(c) - 1, 0))

----------------------------------------------------------------------------
(* The Times table *)

\* render_times without .rev(): the rows in History order
render_times_Forward(h) ==
    LET numrows == Len(h)
    IN  [r \in 1..numrows |-> [label |-> numrows - (r - 1), rec |-> h[r]]]

\* render_times: the rows of the table, top row first.  Row i (0-based) is
\* element i + 1 of the result: its label and the record it shows
render_times(h) ==
    LET numrows == Len(h)
    IN  [r \in 1..numrows |-> [label |-> numrows - (r - 1), rec |-> h[numrows - (r - 1)]]]

\* the 1-based History position of the record shown at 0-based table row i
RowToIndex(h, i) == Len(h) - i

\* App::del: with Times selected and the cursor on a row, the record that row
\* shows is deleted and the records after it are annotated again
del(r, c, h) ==
    IF r.selected_block = Some("Times") /\ IsSome(c) /\ Unwrap(c) < Len(h)
    THEN Rebuild(RemoveAt(Elapsed(h), RowToIndex(h, Unwrap(c))))
    ELSE h

----------------------------------------------------------------------------
(* Persistence: App::write_times, App::load_times *)

\* a stored entry is valid when its elapsed time is finite and non-negative
ValidEntry(x) == x >= 0

\* the entries a persisted file may hold: valid elapsed times and a malformed one
Entries == (1..MaxTime) \cup {-1}

RECURSIVE SeqsUpTo(_, _)
SeqsUpTo(S, n) ==
    IF n = 0 THEN {<<>>}
    ELSE LET shorter == SeqsUpTo(S, n - 1)
         IN  shorter \cup {Append(q, x) : q \in {t \in shorter : Len(t) = n - 1}, x \in S}

\* the persisted files the program may find at startup
StoredFiles == SeqsUpTo(Entries, MaxStored)

\* the file write_times produces: one elapsed time per record, no averages
Serialize(h) == Elapsed(h)

\* load_times succeeds when the file can be read and every entry is valid
LoadOk(d, readable) == readable /\ \A i \in 1..Len(d) : ValidEntry(d[i])

\* the History load_times builds from a file: the averages are computed again
Deserialize(d) == Rebuild(d)

----------------------------------------------------------------------------
(* handle_input *)

\* CompleteSolve with the statistics generated after the insert, so that the
\* record counts itself among the records that precede it
CompleteSolve_StatsAfterInsert(h, t) ==
    LET h1 == insert(h, [time |-> t, ao5 |-> None, ao12 |-> None])
    IN  [h1 EXCEPT ![Len(h1)] = gen_stats(t, h1)]

\* KeyCode::Char(' '), lines 67-69: t.gen_stats(&app.times.times); app.times.insert(t)
CompleteSolve(h, t) == insert(h, gen_stats(t, h))

\* lines 66-73: the History after a primary key press whose space_press returned ret
SpaceTimes(ret, h) == IF IsSome(ret) THEN CompleteSolve(h, Unwrap(ret)) ELSE h

\* lines 70 and 73: the tick rate after a primary key press
SpaceTickRate(ret) == IF IsSome(ret) THEN SlowRate ELSE FastRate

\* SpaceScramble with new_scramble moved out of the Some arm
SpaceScramble_Always(ret, s) == new_scramble(s)

\* line 71: the scramble after a primary key press
SpaceScramble(ret, s) == IF IsSome(ret) THEN new_scramble(s) ELSE s

\* Reload with the two calls swapped: app.load_times()?; app.write_times()?;
Reload_LoadFirst(h, d, wok, rok) ==
    IF ~LoadOk(d, rok) THEN [times |-> h, disk |-> d, io |-> <<"load_err">>, ok |-> FALSE]
    ELSE LET h1 == Deserialize(d)
         IN  IF wok
             THEN [times |-> h1, disk |-> Serialize(h1),
                   io |-> <<"load_ok", "write_ok">>, ok |-> TRUE]
             ELSE [times |-> h1, disk |-> d,
                   io |-> <<"load_ok", "write_err">>, ok |-> FALSE]

\* lines 86-89, Ctrl-w: app.write_times()?; app.load_times()?;  with the file d,
\* the History h, and the outcomes of the write (wok) and of the read (rok)
Reload(h, d, wok, rok) ==
    IF ~wok THEN [times |-> h, disk |-> d, io |-> <<"write_err">>, ok |-> FALSE]
    ELSE LET d1 == Serialize(h)
         IN  IF LoadOk(d1, rok)
             THEN [times |-> Deserialize(d1), disk |-> d1,
                   io |-> <<"write_ok", "load_ok">>, ok |-> TRUE]
             ELSE [times |-> h, disk |-> d1,
                   io |-> <<"write_ok", "load_err">>, ok |-> FALSE]

\* lines 62-65 and 91-94, q and Ctrl-q: app.write_times()?; return Ok(true)
Quit(h, d, wok) ==
    IF wok THEN [disk |-> Serialize(h), io |-> <<"write_ok">>, pc |-> "done"]
    ELSE [disk |-> d, io |-> <<"write_err">>, pc |-> "failed"]

----------------------------------------------------------------------------
(* run *)

\* lines 42-45: the timeout handed to event::poll
Timeout == Max2(tick_rate - elapsed, 0)

\* an event arrives at once or at the very end of the timeout
Arrivals == {0, Timeout}

\* TickDue against the rate the session started with instead of app.tick_rate
TickDue_StartRate(e, rate) == e >= SlowRate

\* line 51: last_tick.elapsed() >= app.tick_rate
TickDue(e, rate) == e >= rate

\* the state after App::new(Duration::from_millis(1000), path), line 30
InitApp ==
    /\ pc = "load"
    /\ key = "none"
    /\ tick_rate = SlowRate
    /\ elapsed = 0
    /\ timer = [on |-> FALSE, lasttime |-> None]
    /\ times = <<>>
    /\ stats = Aggregates(<<>>)
    /\ scramble \in {0, 1}
    /\ route = [screen |-> "Default", active_block |-> "Timer", selected_block |-> None]
    /\ cursor = None
    /\ io = <<>>

Init == InitApp /\ disk \in StoredFiles

\* line 31: app.load_times()?
StartupLoad ==
    /\ pc = "load"
    /\ \E rok \in BOOLEAN :
         IF LoadOk(disk, rok)
         THEN /\ times' = Deserialize(disk)
              /\ stats' = Aggregates(times')
              /\ io' = <<"load_ok">>
              /\ pc' = "poll"
         ELSE /\ io' = <<"load_err">>
              /\ pc' = "failed"
              /\ UNCHANGED <<times, stats>>
    /\ UNCHANGED <<key, tick_rate, elapsed, timer, scramble, route, cursor, disk>>

\* lines 36-46 and 59: terminal.draw, event::poll or event::read fails
IoError ==
    /\ pc = "poll"
    /\ pc' = "failed"
    /\ UNCHANGED <<key, tick_rate, elapsed, timer, times, stats, scramble, route, cursor, disk, io>>

\* line 46: event::poll(timeout) returns false after the whole timeout
PollTimeout ==
    /\ pc = "poll"
    /\ elapsed' = elapsed + Timeout
    /\ pc' = "tick"
    /\ UNCHANGED <<key, tick_rate, timer, times, stats, scramble, route, cursor, disk, io>>

\* an event arrives within the timeout and handle_input reads it as key k
Read(k) ==
    /\ pc = "poll"
    /\ key' = k
    /\ \E d \in Arrivals : elapsed' = elapsed + d

\* KeyCode::Char(' '): history up to maxlen records, clock samples from samples
KeySpace(maxlen, samples) ==
    /\ Read("space")
    /\ \E sample \in samples :
         LET r == space_press(timer, sample)
         IN  /\ IsSome(r.ret) => Len(times) < maxlen
             /\ timer' = r.timer
             /\ times' = SpaceTimes(r.ret, times)
             /\ stats' = Aggregates(times')
             /\ tick_rate' = SpaceTickRate(r.ret)
             /\ scramble' = SpaceScramble(r.ret, scramble)
    /\ pc' = "tick"
    /\ UNCHANGED <<route, cursor, disk, io>>

\* KeyCode::Char('q') and Ctrl-q
KeyQuit ==
    /\ \E k \in {"q", "ctrl-q"} : Read(k)
    /\ \E wok \in BOOLEAN :
         LET r == Quit(times, disk, wok)
         IN  /\ disk' = r.disk
             /\ io' = r.io
             /\ pc' = r.pc
    /\ UNCHANGED <<tick_rate, timer, times, stats, scramble, route, cursor>>

\* Ctrl-w
KeyReload ==
    /\ Read("ctrl-w")
    /\ \E wok \in BOOLEAN, rok \in BOOLEAN :
         LET r == Reload(times, disk, wok, rok)
         IN  /\ times' = r.times
             /\ stats' = Aggregates(times')
             /\ cursor' = Clamp(cursor, Len(times'))
             /\ disk' = r.disk
             /\ io' = r.io
             /\ pc' = IF r.ok THEN "tick" ELSE "failed"
    /\ UNCHANGED <<tick_rate, timer, scramble, route>>

\* KeyCode::Esc and Ctrl-c: app.esc()
KeyEsc ==
    /\ \E k \in {"esc", "ctrl-c"} : Read(k)
    /\ route' = esc(route)
    /\ pc' = "tick"
    /\ UNCHANGED <<tick_rate, timer, times, stats, scramble, cursor, disk, io>>

\* KeyCode::Enter: app.route.enter()
KeyEnter ==
    /\ Read("enter")
    /\ route' = enter(route)
    /\ pc' = "tick"
    /\ UNCHANGED <<tick_rate, timer, times, stats, scramble, cursor, disk, io>>

KeyOfDir(d) == CASE d = "Left" -> "h" [] d = "Down" -> "j" [] d = "Up" -> "k" [] d = "Right" -> "l"

\* KeyCode::Char('h' | 'j' | 'k' | 'l'): app.mv(dir)
KeyMove(d) ==
    /\ Read(KeyOfDir(d))
    /\ route' = mv_route(route, d)
    /\ cursor' = mv_cursor(route, cursor, d, Len(times))
    /\ pc' = "tick"
    /\ UNCHANGED <<tick_rate, timer, times, stats, scramble, disk, io>>

\* KeyCode::Char('d'): app.del()
KeyDel ==
    /\ Read("d")
    /\ times' = del(route, cursor, times)
    /\ stats' = Aggregates(times')
    /\ cursor' = Clamp(cursor, Len(times'))
    /\ pc' = "tick"
    /\ UNCHANGED <<tick_rate, timer, scramble, route, disk, io>>

\* KeyCode::Char('?'): app.help()
KeyHelp ==
    /\ Read("?")
    /\ route' = help(route)
    /\ pc' = "tick"
    /\ UNCHANGED <<tick_rate, timer, times, stats, scramble, cursor, disk, io>>

\* any other key, any other modifier, any event that is no key: nothing
KeyOther ==
    /\ Read("other")
    /\ pc' = "tick"
    /\ UNCHANGED <<tick_rate, timer, times, stats, scramble, route, cursor, disk, io>>

\* line 51: the elapsed-time check that ends every loop iteration
TickCheck ==
    /\ pc = "tick"
    /\ pc' = IF TickDue(elapsed, tick_rate) THEN "on_tick" ELSE "poll"
    /\ key' = "none"
    /\ io' = <<>>
    /\ UNCHANGED <<tick_rate, elapsed, timer, times, stats, scramble, route, cursor, disk>>

\* lines 52-53: app.on_tick(); last_tick = Instant::now()
OnTick ==
    /\ pc = "on_tick"
    /\ elapsed' = 0
    /\ pc' = "poll"
    /\ UNCHANGED <<key, tick_rate, timer, times, stats, scramble, route, cursor, disk, io>>

Next ==
    \/ StartupLoad
    \/ IoError
    \/ PollTimeout
    \/ KeySpace(MaxHist, 1..MaxTime)
    \/ KeyQuit
    \/ KeyReload
    \/ KeyEsc
    \/ KeyEnter
    \/ \E d \in Dirs : KeyMove(d)
    \/ KeyDel
    \/ KeyHelp
    \/ KeyOther
    \/ TickCheck
    \/ OnTick

Spec == Init /\ [][Next]_vars

\* The timing session: an empty file, the primary key, unbound keys, quit.
InitSolves == InitApp /\ disk = <<>>

NextSolves ==
    \/ StartupLoad
    \/ IoError
    \/ PollTimeout
    \/ KeySpace(MaxSolves, 1..MaxSolveTime)
    \/ KeyQuit
    \/ KeyOther
    \/ TickCheck
    \/ OnTick

SpecSolves == InitSolves /\ [][NextSolves]_vars

\* The Times table session: solves, focus and selection, the cursor of the
\* Times table, delete.
InitTimes == InitApp /\ disk = <<>> /\ scramble = 0

NextTimes ==
    \/ StartupLoad
    \/ PollTimeout
    \/ KeySpace(MaxHist, 1..MaxTime)
    \/ KeyEsc
    \/ KeyEnter
    \/ \E d \in {"Down", "Up"} : KeyMove(d)
    \/ KeyDel
    \/ TickCheck
    \/ OnTick

SpecTimes == InitTimes /\ [][NextTimes]_vars

\* The reload session: Histories made by solves and deletes, flushed and
\* loaded again with the reload key.
InitReload == InitApp /\ disk = <<>> /\ scramble = 0

NextReload ==
    \/ StartupLoad
    \/ PollTimeout
    \/ KeySpace(MaxHist, 1..MaxTime)
    \/ KeyReload
    \/ KeyEnter
    \/ \E d \in {"Down", "Up"} : KeyMove(d)
    \/ KeyDel
    \/ TickCheck
    \/ OnTick

SpecReload == InitReload /\ [][NextReload]_vars

----------------------------------------------------------------------------
(* The claims *)

Ended == {"done", "failed"}
QuitKeys == {"q", "ctrl-q"}

\* a dispatch of key k: handle_input reads k in the step from this state
Dispatch(k) == pc = "poll" /\ key' = k

\* C1: a primary key press that completes a solve (the timer was Running, so
\* space_press returns the finished time) appends exactly one record to the end
\* of History, keeps every earlier record in place, and requests a new scramble
\* in that same dispatch; a press that completes no solve leaves History and the
\* scramble as they were.
C1_SolveAppendsOneRecord ==
    [][Dispatch("space") =>
         IF TimerState(timer) = "Running"
         THEN /\ Len(times') = Len(times) + 1
              /\ SubSeq(times', 1, Len(times)) = times
              /\ Some(times'[Len(times')].time) = timer'.lasttime
              /\ scramble' # scramble
         ELSE /\ times' = times
              /\ scramble' = scramble]_vars

\* C1 witness: a solve has just been completed on top of an earlier record
C1_Witness ==
    /\ pc = "tick" /\ key = "space"
    /\ TimerState(timer) = "Stopped"
    /\ Len(times) >= 2
    /\ Some(times[Len(times)].time) = timer.lasttime

\* C2: once the session runs, the tick rate is the fast rate exactly when the
\* timer is Running, and the slow rate whenever it is Idle or Stopped.
C2_FastRateIffRunning ==
    pc # "load" =>
        /\ (tick_rate = FastRate <=> TimerState(timer) = "Running")
        /\ (TimerState(timer) \in {"Idle", "Stopped"} => tick_rate = SlowRate)

\* C3: a load of the persisted history that fails at startup is recovered: the
\* session enters the control loop with an empty History.
C3_StartupLoadFailureRecovered ==
    [][(pc = "load" /\ io' = <<"load_err">>) => (pc' = "poll" /\ times' = <<>>)]_vars

\* C4: a quit key ends the loop in its own dispatch, after exactly one flush
\* attempt, cleanly when the flush succeeded and with an error when it failed;
\* no other key ends the loop.
C4_OnlyQuitEndsLoop ==
    [][pc = "poll" =>
         /\ key' \in QuitKeys =>
              /\ pc' \in Ended
              /\ io' \in {<<"write_ok">>, <<"write_err">>}
              /\ (pc' = "done" <=> io' = <<"write_ok">>)
         /\ (pc' \in Ended /\ key' # "none") => key' \in QuitKeys]_vars

RowsReversed ==
    \A i \in 0..(Len(times) - 1) :
        /\ render_times(times)[i + 1].rec = times[(Len(times) - 1 - i) + 1]
        /\ render_times(times)[i + 1].label = (Len(times) - 1 - i) + 1

\* C6: the Times table shows History in reverse-chronological order; a delete
\* with Times selected and the cursor on row i removes exactly the record the
\* table shows on row i, the one at History index len-1-i; a delete key press
\* with Times not selected removes nothing.
C6_DeleteRemovesShownRow ==
    /\ []RowsReversed
    /\ [][Dispatch("d") =>
            IF route.selected_block = Some("Times") /\ IsSome(cursor)
            THEN /\ Unwrap(cursor) < Len(times)
                 /\ Elapsed(times') =
                        RemoveAt(Elapsed(times), render_times(times)[Unwrap(cursor) + 1].label)
                 /\ Len(times') = Len(times) - 1
            ELSE route.selected_block # Some("Times") => times' = times]_vars

\* C6 witness: a delete has just removed a record of a two-record History with
\* Times selected (the cursor is still on a row, so it was on one before)
C6_Witness ==
    /\ pc = "tick" /\ key = "d"
    /\ route.selected_block = Some("Times")
    /\ IsSome(cursor)
    /\ Len(times) = 1

\* the record at 1-based position k has its ao5 from position 5 on and its
\* ao12 from position 12 on, and not before
AveragesByPosition ==
    \A k \in 1..Len(times) :
        /\ (k <= 4 => times[k].ao5 = None)
        /\ (k >= 5 => IsSome(times[k].ao5))
        /\ (k <= 11 => times[k].ao12 = None)
        /\ (k >= 12 => IsSome(times[k].ao12))

\* C7: in a History built by completed solves only, the record at position k
\* has no ao5 for k <= 4 and one for k >= 5, no ao12 for k <= 11 and one for
\* k >= 12; inserting a later record changes no earlier record.
C7_AveragesDefinedFromPosition ==
    /\ []AveragesByPosition
    /\ [][/\ Len(times') >= Len(times)
          /\ SubSeq(times', 1, Len(times)) = times]_vars

\* C7 witness: twelve solves, the twelfth with an ao12, the fifth with an ao5
C7_Witness ==
    /\ Len(times) >= 12
    /\ IsSome(times[12].ao12)
    /\ times[11].ao12 = None
    /\ IsSome(times[5].ao5)
    /\ times[4].ao5 = None

\* C8: with an empty History every aggregate is None, the worst single too,
\* which is defined only once a record exists.
C8_AggregatesNoneWhenEmpty ==
    /\ times = <<>> =>
         /\ stats.pbsingle = None /\ stats.pbao5 = None /\ stats.pbao12 = None
         /\ stats.ao100 = None /\ stats.ao1k = None /\ stats.rollingavg = None
         /\ stats.worst = None
    /\ IsSome(stats.worst) => Len(times) >= 1

\* C9: a primary key press while the timer is Stopped only moves it to Idle:
\* nothing is inserted, History is unchanged, the tick rate stays slow.
C9_StoppedPressOnlyIdles ==
    [][(Dispatch("space") /\ TimerState(timer) = "Stopped") =>
         /\ TimerState(timer') = "Idle"
         /\ times' = times
         /\ tick_rate = SlowRate
         /\ tick_rate' = SlowRate]_vars

\* C10: on_tick runs only when at least the current tick rate has elapsed since
\* the last tick, the last-tick time is reset right after it, and every loop
\* iteration that does not end the loop, with or without a key event, reaches
\* the elapsed-time check, which invokes on_tick once the rate has elapsed.
C10_TickOnlyWhenDue ==
    /\ [](pc = "on_tick" => elapsed >= tick_rate)
    /\ [][pc = "on_tick" => (elapsed' = 0 /\ pc' = "poll")]_vars
    /\ [][(pc = "poll" /\ pc' \notin Ended) => pc' = "tick"]_vars
    /\ [][pc = "tick" => pc' = (IF elapsed >= tick_rate THEN "on_tick" ELSE "poll")]_vars

\* C10 witness: on_tick is about to run at the fast rate, after a key event
\* started the timer less than the slow rate after the previous tick
C10_Witness ==
    /\ pc = "on_tick"
    /\ tick_rate = FastRate
    /\ elapsed < SlowRate
    /\ timer.on

====
